---- MODULE Spec2Model ----
(***************************************************************************)
(* KarokiMate: offline-first recording lifecycle and sync reconciliation.  *)
(*                                                                         *)
(* The model follows the TypeScript services:                              *)
(*   DatabaseService (services/database)  - the local recording store      *)
(*   SyncService     (services/syncService.ts) - the reconciler            *)
(*   AudioService    (services/audioService.ts) - capture, commit, upload  *)
(*   FirebaseService (services/firebaseService.ts) - the remote store      *)
(* and the screens that call them (explore.tsx, settings.tsx, the karaoke  *)
(* screen and the AuthProvider).                                           *)
(*                                                                         *)
(* Asynchronous work that the code does not wait for (a reconcile pass, a  *)
(* background upload) is a process with a position; its awaits are the     *)
(* points where other handlers interleave.  A handler whose caller awaits  *)
(* it to the end is one action.  Outcomes of the device, the storage and   *)
(* the network are chosen by \E.                                           *)
(***************************************************************************)
EXTENDS Integers, Sequences, FiniteSets, Bags, TLC

\* ------------------------------------------------------------- bounds
\* Recordings committed in one behaviour (ids 1..MaxRecordings).
MaxRecordings == 1

\* AudioService calls in flight at one time.
MaxCalls == 2

\* Audio.Recording objects created in one behaviour.
MaxCaptures == 2

\* ---------------------------------------------------- program constants
\* metadata.duration || 120
DefaultDuration == 120

\* The durations a caller passes as metadata.duration; 0 stands for every
\* falsy value (0, undefined), which `||` replaces by the default.
MetaDurations == {0, 5000}

NoUser == "null"
Users == {"u1"}

RecIds == 1..MaxRecordings

\* The songs of the catalog.
MaxSongs == 1
SongIds == 1..MaxSongs

\* The subscribers to status changes (the settings screens), and the empty
\* callback slot.
MaxSubscribers == 2
Subscribers == 1..MaxSubscribers
NoCallback == 0

\* Timers whose id has been overwritten are counted up to MaxOrphans, in the
\* specifications where cleanup() is called; where nothing clears a timer the
\* count is left Untracked (a tick is possible once initialize has run).
MaxOrphans == 2
Untracked == -1

VARIABLES
    \* ---- environment
    isWeb,                  \* Platform.OS === 'web'
    storeCalls,             \* saveRecording / deleteRecording calls at an await
    netConnected,           \* NetInfo: state.isConnected
    user,                   \* the signed-in principal (AuthContext.user)
    \* ---- DatabaseService
    db,                     \* the SQLite handle: "null" or "open"
    sqlRecordings,          \* rows of the SQLite table `recordings`
    karaoke_recordings,     \* AsyncStorage key 'karaoke_recordings' (mobile)
    karaokemate_recordings, \* localStorage key 'karaokemate_recordings' (web)
    \* ---- FirebaseService
    remote,                 \* documents of the `recordings` collection
    \* ---- SongService
    songs,                  \* rows of the SQLite table `songs`
    downloadedSongs,        \* AsyncStorage key 'karaoke_downloaded_songs'
    songFiles,              \* the files of documentDirectory/songs/
    songResult,             \* what the last song operation did and returned
    \* ---- SyncService
    onStatusChange,         \* the status callback: NoCallback or a subscriber
    subscribers,            \* history: the subscribers that have registered
    delivered,              \* history: who the latest notification reached
    isOnline,
    isSyncing,
    currentUserId,
    netListener,            \* initialize has registered a NetInfo listener
    syncInterval,           \* initialize has started the setInterval timer
    orphanTimers,           \* live timers whose id syncInterval no longer holds
    passes,                 \* performSync invocations past the guard, oldest first
    \* ---- AudioService
    recordingState,         \* _recordingState
    recording,              \* the capture handle: TRUE when non-null
    isRecording,            \* _isRecording
    bgUploads,              \* uploadToFirebaseInBackground tasks in flight
    \* ---- the file system
    audioFiles,             \* the audio files the stored recordings own
    \* ---- AudioService, one await at a time
    calls,                  \* startRecording/stopRecording/cancelRecording in flight
    handle,                 \* the Audio.Recording this.recording refers to, 0 for null
    loaded,                 \* the Audio.Recording objects recording on the device
    nextCapture,            \* the next Audio.Recording object
    files,                  \* the audio files of the captures that exist
    localRecordings,        \* LocalRecordingService.recordings, as uris
    result,                 \* what the last AudioService call to end reported
    \* ---- history (not program state)
    nextId,                 \* the next fresh recording id
    hist                    \* what the claims need to remember of the past

vars == <<isWeb, storeCalls, netConnected, user, db, sqlRecordings,
          karaoke_recordings, karaokemate_recordings, remote,
          isOnline, isSyncing, currentUserId, netListener, syncInterval, orphanTimers, passes,
          recordingState, recording, isRecording, bgUploads,
          audioFiles, calls, handle, loaded, nextCapture, files, localRecordings,
          result,
          onStatusChange, subscribers, delivered,
          songs, downloadedSongs, songFiles, songResult,
          nextId, hist>>

envVars   == <<isWeb, storeCalls, netConnected, user>>
statusVars == <<onStatusChange, subscribers, delivered>>
songVars  == <<songs, downloadedSongs, songFiles, songResult>>
dbVars    == <<db, sqlRecordings, karaoke_recordings,
               karaokemate_recordings>>
timerVars == <<syncInterval, orphanTimers>>
syncVars  == <<isOnline, isSyncing, currentUserId, netListener, timerVars, passes>>
audioVars == <<recordingState, recording, isRecording>>
captureVars == <<calls, handle, loaded, nextCapture, files, localRecordings, result>>

\* ------------------------------------------- AudioService calls in flight
\* No file: what a call that returns no uri returns.
NoFile == <<"none", 0>>

\* The shape of a call in flight: op and pc say where it is; cap is the
\* Audio.Recording its device operation is about; uri and ret are the locals
\* of stopRecording.
NoCall == [op |-> "none", pc |-> "none", cap |-> 0, uri |-> NoFile, ret |-> NoFile]

\* What a call reports to its caller when it ends: out is "ok" or the error
\* it throws, ret the uri it returns.
Result(op, out, ret) == [op |-> op, out |-> out, ret |-> ret]

\* The file an Audio.Recording object records into (getURI()), in the cache
\* directory.
TmpFile(c) == <<"cache", c>>

\* permanentUri, in the document directory, for the audio at uri.
PermanentFile(uri) == <<"document", uri[2]>>

\* What a song operation reports: the operation, the song id, what it
\* returned (out), the audioUrl of the song the screen was given (NoFile when
\* none), the alert shown, and what it did on the way: netInfo (NetInfo.fetch
\* was called), getSong (firebaseService.getSong was called).  History fields:
\* held (the downloaded-song list held the song when the call was made),
\* online (the network state at the call), fetched (how the remote fetch
\* ended) and empty (the remote asset was empty, or the transfer left an empty
\* local file).
SongResult(op, id, out, url, alert, netInfo, getSong, held, online, fetched, empty) ==
    [op |-> op, id |-> id, out |-> out, audioUrl |-> url, alert |-> alert,
     netInfo |-> netInfo, getSong |-> getSong, held |-> held, online |-> online,
     fetched |-> fetched, empty |-> empty]

NoSongResult ==
    SongResult("none", 0, "none", NoFile, "none", FALSE, FALSE, FALSE, FALSE, "none", FALSE)

\* ------------------------------------------------------------ helpers
Range(s) == {s[i] : i \in DOMAIN s}

\* ------------------------------------------------- DatabaseService
\* The list the platform's recording operations read and write.
StoredRecordings == IF isWeb THEN karaokemate_recordings ELSE karaoke_recordings

\* getRecordings(): the parsed list (newest first).
GetRecordings == StoredRecordings

\* recordings.find(r => r.id === id): the first match, or absent.
FindRecording(list, id) ==
    LET Hit(r) == r.id = id
        hits == SelectSeq(list, Hit)
    IN  IF hits = <<>> THEN {} ELSE {hits[1]}

\* getRecording(id): a set holding the recording, empty for null.
GetRecording(id) == FindRecording(StoredRecordings, id)


\* A stored Recording.  createdAt (a timestamp) and the descriptive metadata
\* play no part in the stores' or the reconciler's decisions and are left out.
Recording(id, audioPath, duration, synced) ==
    [id |-> id, audioPath |-> audioPath, duration |-> duration, isSynced |-> synced]

\* saveWebRecording: [fullRecording, ...existingRecordings]
SaveWebRecording(list, r) == <<r>> \o list

\* A save that writes nothing.
SaveAsyncRecording_Dropped(list, r) == list

\* saveRecording, mobile branch: recordings.unshift(newRecording)
SaveAsyncRecording(list, r) == <<r>> \o list

\* An update that flips the flag of the matching recordings.
UpdateWebRecordingSyncStatus_Toggle(list, id, synced) ==
    [i \in DOMAIN list |->
        IF list[i].id = id THEN [list[i] EXCEPT !.isSynced = ~@] ELSE list[i]]

\* An update that adds an entry when no recording matches.
UpdateWebRecordingSyncStatus_Upsert(list, id, synced) ==
    IF \E i \in DOMAIN list : list[i].id = id
    THEN [i \in DOMAIN list |->
            IF list[i].id = id THEN [list[i] EXCEPT !.isSynced = synced] ELSE list[i]]
    ELSE Append(list, [id |-> id, audioPath |-> id, duration |-> 0, isSynced |-> synced])

\* updateWebRecordingSyncStatus: recordings.map(r => r.id === id ? {...r, isSynced} : r)
UpdateWebRecordingSyncStatus(list, id, synced) ==
    [i \in DOMAIN list |->
        IF list[i].id = id THEN [list[i] EXCEPT !.isSynced = synced] ELSE list[i]]

\* UPDATE recordings SET isSynced = ? WHERE id = ?
SqlUpdateSyncStatus(rows, id, synced) ==
    [i \in DOMAIN rows |->
        IF rows[i].id = id THEN [rows[i] EXCEPT !.isSynced = synced] ELSE rows[i]]

\* deleteWebRecording / deleteRecording: recordings.filter(r => r.id !== id)
FilterOutRecording(list, id) ==
    LET Keep(r) == r.id # id
    IN  SelectSeq(list, Keep)

\* A query that reads the list saveRecording writes.
GetUnsyncedRecordings_FromStore ==
    LET Unsynced(r) == ~r.isSynced
    IN  SelectSeq(StoredRecordings, Unsynced)

\* getUnsyncedRecordings(): if (!this.db) return [];
\* SELECT * FROM recordings WHERE isSynced = 0
GetUnsyncedRecordings ==
    IF db = "null" THEN <<>>
    ELSE LET Unsynced(r) == ~r.isSynced
         IN  SelectSeq(sqlRecordings, Unsynced)

UnsyncedIds == {r.id : r \in Range(GetUnsyncedRecordings)}

\* saveRecording(recording) when the storage write succeeds.
SaveRecording(r) ==
    /\ IF isWeb
       THEN /\ karaokemate_recordings' = SaveWebRecording(karaokemate_recordings, r)
            /\ UNCHANGED karaoke_recordings
       ELSE /\ karaoke_recordings' = SaveAsyncRecording(karaoke_recordings, r)
            /\ UNCHANGED karaokemate_recordings
    /\ UNCHANGED <<db, sqlRecordings>>

\* The state of the store that the recording operations read and write.
Store ==
    [db |-> db, sqlRecordings |-> sqlRecordings,
     karaoke_recordings |-> karaoke_recordings,
     karaokemate_recordings |-> karaokemate_recordings]

\* An update whose write lands even when the storage refuses it.
UpdateRecordingSyncStatusOn_IgnoresFailure(s, id, synced, storageOk) ==
    IF isWeb
    THEN [s EXCEPT !.karaokemate_recordings =
                      UpdateWebRecordingSyncStatus(@, id, synced)]
    ELSE [s EXCEPT !.sqlRecordings = SqlUpdateSyncStatus(@, id, synced)]

\* updateRecordingSyncStatus(id, isSynced) applied to the store state s.
\* storageOk: the storage (localStorage on web, SQLite on mobile) accepts the
\* write.  On web the list is mapped and written back; a failing write leaves
\* it as it was.  On mobile the call returns at once without a database
\* handle; else it runs the UPDATE, and a failing database is swallowed and
\* the handle dropped.
UpdateRecordingSyncStatusOn(s, id, synced, storageOk) ==
    IF isWeb
    THEN IF storageOk
         THEN [s EXCEPT !.karaokemate_recordings =
                           UpdateWebRecordingSyncStatus(@, id, synced)]
         ELSE s
    ELSE IF s.db = "null"
         THEN s
         ELSE IF storageOk
              THEN [s EXCEPT !.sqlRecordings = SqlUpdateSyncStatus(@, id, synced)]
              ELSE [s EXCEPT !.db = "null"]

\* updateRecordingSyncStatus(id, isSynced) as a step of the program.
UpdateRecordingSyncStatus(id, synced, storageOk) ==
    LET s == UpdateRecordingSyncStatusOn(Store, id, synced, storageOk)
    IN  /\ db' = s.db
        /\ sqlRecordings' = s.sqlRecordings
        /\ karaoke_recordings' = s.karaoke_recordings
        /\ karaokemate_recordings' = s.karaokemate_recordings

\* Whether updateRecordingSyncStatus throws.
UpdateSyncStatusThrows(storageOk) == isWeb /\ ~storageOk

\* ------------------------------------------------------------- history

\* hist, what the claims need to remember of the past:
\*   offline - the ids of the recordings committed while offline that no
\*             handler has touched since (shared or deleted);
\*   fresh   - the last reconcile pass to finish was clean, and since it
\*             started nothing but reconcile passes has written to the local
\*             or the remote store;
\*   failed  - the ids of the recordings whose latest attempt by a reconcile
\*             pass failed at the upload or at the remote create;
\*   cancelled - the captures a cancelRecording call has gone on to stop.
\*   saved   - the ids whose saveRecording call has completed and that no
\*             completed deleteRecording call has removed since.
NoHistory ==
    [offline |-> {}, fresh |-> FALSE, failed |-> {}, cancelled |-> {}, saved |-> {}]

StoredIds == {r.id : r \in Range(StoredRecordings)}

\* History: the passes in flight are no longer quiet.
Disquiet(ps) == [i \in DOMAIN ps |-> [ps[i] EXCEPT !.quiet = FALSE]]

\* History: a handler other than a reconcile pass writes to the stores, touching
\* the recordings ids.
Disturb(ids) ==
    /\ hist' = [hist EXCEPT !.fresh = FALSE, !.offline = @ \ ids]
    /\ passes' = Disquiet(passes)

\* ---------------------------------------------------------------- Init
\* The fields of the services after construction.
Constructed ==
    /\ isWeb \in BOOLEAN
    /\ storeCalls = {}
    /\ netConnected \in BOOLEAN
    /\ user = NoUser
    /\ db \in (IF isWeb THEN {"null"} ELSE {"null", "open"})
    /\ sqlRecordings = <<>>
    /\ karaoke_recordings = <<>>
    /\ karaokemate_recordings = <<>>
    /\ remote = {}
    /\ isOnline = FALSE
    /\ isSyncing = FALSE
    /\ currentUserId = NoUser
    /\ onStatusChange = NoCallback
    /\ subscribers = {}
    /\ delivered = {}
    /\ songs = {}
    /\ downloadedSongs = <<>>
    /\ songFiles = {}
    /\ songResult = NoSongResult
    /\ netListener = FALSE
    /\ syncInterval = FALSE
    /\ passes = <<>>
    /\ recordingState = "idle"
    /\ recording = FALSE
    /\ isRecording = FALSE
    /\ bgUploads = {}
    /\ audioFiles = {}
    /\ calls = EmptyBag
    /\ result = Result("none", "none", NoFile)
    /\ handle = 0
    /\ loaded = {}
    /\ nextCapture = 1
    /\ files = {}
    /\ localRecordings = <<>>
    /\ nextId = 1
    /\ hist = NoHistory

Init == Constructed /\ orphanTimers = Untracked


\* ------------------------------------------------------- environment
\* AuthProvider's auth-state listener: setUser(user); the reconciler's user id
\* follows only when the profile loads.
AuthStateChanged(u, profileOk) ==
    /\ u # user
    /\ user' = u
    /\ currentUserId' = IF u # NoUser /\ profileOk THEN u ELSE NoUser
    /\ passes' = Disquiet(passes)
    /\ UNCHANGED <<songVars, statusVars, captureVars, audioFiles, isWeb, storeCalls, netConnected, dbVars, remote, isOnline, isSyncing,
                   netListener, timerVars, audioVars, bgUploads, nextId, hist>>

\* --------------------------------------------------------- SyncService
\* A guard that looks at the network only.
PerformSyncProceeds_NoReentrancyGuard(online) == online

\* A guard that looks at the syncing flag only.
PerformSyncProceeds_NoOnlineGuard(online) == ~isSyncing

\* performSync line 1: if (!this.isOnline || this.isSyncing) return;
PerformSyncProceeds(online) == online /\ ~isSyncing

\* notifyStatusChange(): if (this.onStatusChange)
\* this.getSyncStatus().then(this.onStatusChange).  The one callback in the
\* slot receives the status.
NotifyStatusChange ==
    /\ delivered' = IF onStatusChange = NoCallback THEN {} ELSE {onStatusChange}
    /\ UNCHANGED <<onStatusChange, subscribers>>

\* setOnStatusChange(callback): this.onStatusChange = callback.
SetOnStatusChange(s) ==
    /\ onStatusChange' = s
    /\ subscribers' = subscribers \cup {s}
    /\ UNCHANGED <<songVars, delivered, captureVars, audioFiles, envVars, dbVars, remote, syncVars,
                   audioVars, bgUploads, nextId, hist>>

\* The pass a performSync call starts.  pc, queue and step are its position.
\* History fields: clean (no remote call or query of the pass has failed) and
\* quiet (since the pass started, no handler but the pass has written to the
\* stores and the reconciler's user id has not been set).
NewPass ==
    [pc |-> "fetch", queue |-> <<>>, step |-> "upload",
     clean |-> TRUE, quiet |-> TRUE]

\* performSync() up to its first await, called with this.isOnline = online:
\* either it returns at the guard or it sets isSyncing and a pass is in flight.
PerformSync(online) ==
    IF PerformSyncProceeds(online)
    THEN /\ isSyncing' = TRUE
         /\ NotifyStatusChange
         /\ passes' = Append(passes, NewPass)
    ELSE UNCHANGED <<isSyncing, passes, statusVars>>

\* initialize(userId?): the settings screens call it with no argument.  Every
\* call registers one more listener and one more timer; what the callbacks do
\* does not depend on how many there are, so only the presence of a listener
\* is kept.  this.syncInterval = setInterval(...) overwrites the id of the
\* timer of an earlier call, which stays live.
Initialize(userId) ==
    /\ (orphanTimers # Untracked /\ syncInterval) => orphanTimers < MaxOrphans
    /\ currentUserId' = userId
    /\ netListener' = TRUE
    /\ isOnline' = netConnected
    /\ syncInterval' = TRUE
    /\ orphanTimers' = IF orphanTimers # Untracked /\ syncInterval
                       THEN orphanTimers + 1
                       ELSE orphanTimers
    /\ passes' = Disquiet(passes)
    /\ NotifyStatusChange
    /\ UNCHANGED <<songVars, captureVars, audioFiles, envVars, dbVars, remote, isSyncing, audioVars,
                   bgUploads, nextId, hist>>

\* A NetInfo event reporting isConnected = c (the value may be the one already
\* known).  Every registered listener runs; the first one updates isOnline, so
\* a later one sees wasOffline = FALSE when the state is online.
NetInfoEvent(c) ==
    /\ netConnected' = c
    /\ IF ~netListener
       THEN UNCHANGED <<isOnline, isSyncing, passes, statusVars>>
       ELSE /\ isOnline' = c
            /\ IF ~isOnline /\ c /\ ~isSyncing /\ currentUserId # NoUser
               THEN PerformSync(c)
               ELSE /\ NotifyStatusChange
                    /\ UNCHANGED <<isSyncing, passes>>
    /\ UNCHANGED <<songVars, captureVars, audioFiles, isWeb, storeCalls, user, dbVars, remote, currentUserId, netListener, timerVars,
                   audioVars, bgUploads, nextId, hist>>

\* Some setInterval timer of the service is live: the one syncInterval holds,
\* or one whose id was overwritten.
TimerLive == syncInterval \/ (orphanTimers # Untracked /\ orphanTimers > 0)

\* cleanup(): if (this.syncInterval) { clearInterval(this.syncInterval);
\* this.syncInterval = null }.
Cleanup ==
    /\ syncInterval' = FALSE
    /\ UNCHANGED <<songVars, statusVars, captureVars, audioFiles, envVars, dbVars, remote,
                   isOnline, isSyncing, currentUserId, netListener, orphanTimers, passes,
                   audioVars, bgUploads, nextId, hist>>

\* The setInterval callback.
TimerTick ==
    /\ TimerLive
    /\ IF isOnline /\ ~isSyncing /\ currentUserId # NoUser
       THEN PerformSync(isOnline)
       ELSE UNCHANGED <<isSyncing, passes, statusVars>>
    /\ UNCHANGED <<songVars, captureVars, audioFiles, envVars, dbVars, remote, isOnline, currentUserId, netListener,
                   timerVars, audioVars, bgUploads, nextId, hist>>

\* A forceSync that never refuses.
ForceSyncProceeds_Always == TRUE

\* forceSync line 1: if (this.isOnline)
ForceSyncProceeds == isOnline

\* What forceSync() reports to its caller: throw new Error('No internet
\* connection') when it does not proceed.
ForceSyncOutcome == IF ForceSyncProceeds THEN "ok" ELSE "NoConnection"

\* forceSync(): throws when offline, else awaits performSync.
ForceSync ==
    /\ IF ForceSyncProceeds
       THEN PerformSync(isOnline)
       ELSE UNCHANGED <<isSyncing, passes, statusVars>>
    /\ UNCHANGED <<songVars, captureVars, audioFiles, envVars, dbVars, remote, isOnline, currentUserId, netListener,
                   timerVars, audioVars, bgUploads, nextId, hist>>

\* performSync() called directly (it is a public method).
PerformSyncCall ==
    /\ PerformSync(isOnline)
    /\ UNCHANGED <<songVars, captureVars, audioFiles, envVars, dbVars, remote, isOnline, currentUserId, netListener,
                   timerVars, audioVars, bgUploads, nextId, hist>>

\* A remote call can succeed only while the network is connected.
RemoteOutcomes == IF netConnected THEN BOOLEAN ELSE {FALSE}

\* firebaseService.addRecording: one new document per call, under a fresh
\* document id.  localId (the local Recording the document was made from) and
\* via are history fields: the document itself carries no reference to the
\* local Recording.
RemoteDoc(userId, duration, localId, via) ==
    [docId |-> <<localId, 1 + Cardinality({d \in remote : d.localId = localId})>>,
     userId |-> userId, duration |-> duration, localId |-> localId, via |-> via]

\* uploadUnsyncedRecordings: const unsyncedRecordings = await getUnsyncedRecordings()
\* A throwing query is rethrown and ends the pass in performSync's catch.
SyncFetch(i, queryOk) ==
    /\ i \in DOMAIN passes /\ passes[i].pc = "fetch"
    /\ queryOk \/ db = "open"
    /\ passes' = [passes EXCEPT ![i] =
          IF queryOk
          THEN [@ EXCEPT !.pc = "loop", !.queue = GetUnsyncedRecordings]
          ELSE [@ EXCEPT !.pc = "finally", !.clean = FALSE]]
    /\ UNCHANGED <<songVars, statusVars, captureVars, audioFiles, envVars, dbVars, remote, isOnline, isSyncing, currentUserId,
                   netListener, timerVars, audioVars, bgUploads, nextId, hist>>

\* Dropping the head of the queue: the next iteration of the for loop.
NextItem(p, failed) ==
    [p EXCEPT !.queue = Tail(@), !.step = "upload",
              !.clean = IF failed THEN FALSE ELSE @]

\* One await of the for loop of uploadUnsyncedRecordings, for the recording at
\* the head of the queue: uploadRecording (uploadRecordingFile, then
\* addRecording), then updateRecordingSyncStatus(id, true); an error at any of
\* them is caught and the loop goes on.  After the last item the pass runs
\* downloadNewSongs, which saves the catalog's new songs to the SQLite songs
\* table (no part of the recording stores) and catches its own errors.
SyncLoop(i, ok) ==
    /\ i \in DOMAIN passes /\ passes[i].pc = "loop"
    /\ LET p == passes[i] IN
       IF p.queue = <<>>
       THEN /\ passes' = [passes EXCEPT ![i].pc = "finally"]
            /\ UNCHANGED <<remote, dbVars, hist>>
       ELSE LET r == Head(p.queue) IN
            CASE p.step = "upload" ->
                   LET done == currentUserId # NoUser /\ ok /\ netConnected IN
                   /\ passes' = [passes EXCEPT ![i] =
                        IF done THEN [p EXCEPT !.step = "add"] ELSE NextItem(p, TRUE)]
                   /\ hist' = IF done THEN hist
                              ELSE [hist EXCEPT !.failed = @ \cup {r.id}]
                   /\ UNCHANGED <<remote, dbVars>>
              [] p.step = "add" ->
                   LET done == ok /\ netConnected IN
                   /\ passes' = [passes EXCEPT ![i] =
                        IF done THEN [p EXCEPT !.step = "mark"] ELSE NextItem(p, TRUE)]
                   /\ remote' = IF done
                                THEN remote \cup {RemoteDoc(currentUserId, r.duration, r.id, "sync")}
                                ELSE remote
                   /\ hist' = IF done THEN hist
                              ELSE [hist EXCEPT !.failed = @ \cup {r.id}]
                   /\ UNCHANGED dbVars
              [] OTHER ->
                   /\ passes' = [passes EXCEPT ![i] = NextItem(p, FALSE)]
                   /\ UpdateRecordingSyncStatus(r.id, TRUE, ok)
                   /\ hist' = [hist EXCEPT !.failed = @ \ {r.id}]
                   /\ UNCHANGED remote
    /\ UNCHANGED <<songVars, statusVars, captureVars, audioFiles, envVars, isOnline, isSyncing, currentUserId,
                   netListener, timerVars, audioVars, bgUploads, nextId>>

\* The sequence without its i-th element.
RemoveAt(s, i) == SubSeq(s, 1, i - 1) \o SubSeq(s, i + 1, Len(s))

\* A pass that resets the flag at the end of its try block only: a pass in
\* which something failed leaves it set.
SyncFinally_ResetInTryOnly(i) ==
    /\ i \in DOMAIN passes /\ passes[i].pc = "finally"
    /\ isSyncing' = ~passes[i].clean
    /\ NotifyStatusChange
    /\ passes' = RemoveAt(passes, i)
    /\ hist' = [hist EXCEPT !.fresh = passes[i].clean /\ passes[i].quiet]
    /\ UNCHANGED <<songVars, captureVars, audioFiles, envVars, dbVars, remote, isOnline, currentUserId, netListener,
                   timerVars, audioVars, bgUploads, nextId>>

\* finally { this.isSyncing = false; }
SyncFinally(i) ==
    /\ i \in DOMAIN passes /\ passes[i].pc = "finally"
    /\ isSyncing' = FALSE
    /\ NotifyStatusChange
    /\ passes' = RemoveAt(passes, i)
    /\ hist' = [hist EXCEPT !.fresh = passes[i].clean /\ passes[i].quiet]
    /\ UNCHANGED <<songVars, captureVars, audioFiles, envVars, dbVars, remote, isOnline, currentUserId, netListener,
                   timerVars, audioVars, bgUploads, nextId>>

\* -------------------------------------------------------- AudioService
\* startRecording(): a no-op when already recording; a failure (permission,
\* prepare, start) leaves the state idle and throws.
StartRecording(deviceOk) ==
    /\ IF recordingState = "recording"
       THEN UNCHANGED audioVars
       ELSE IF deviceOk
            THEN /\ recording' = TRUE
                 /\ isRecording' = TRUE
                 /\ recordingState' = "recording"
            ELSE /\ recordingState' = "idle"
                 /\ UNCHANGED <<recording, isRecording>>
    /\ UNCHANGED <<songVars, statusVars, captureVars, audioFiles, envVars, dbVars, remote, syncVars, bgUploads, nextId, hist>>

\* A guard that looks at the handle only.
NoActiveRecording_HandleOnly == ~recording

\* stopRecording() rejects the call: if (!this.recording || state !== 'recording')
NoActiveRecording ==~recording \/ recordingState # "recording"

\* stopRecording() past its guard: on every path the state ends idle with no
\* capture handle (the audio handle is returned when the device stop succeeds).
StopRecording ==
    /\ recording' = FALSE
    /\ isRecording' = FALSE
    /\ recordingState' = "idle"

\* metadata.duration || 120
CommitDuration(d) == IF d = 0 THEN DefaultDuration ELSE d

\* The task uploadToFirebaseInBackground(recordingUri, userId, metadata, id).
BgTask(id, userId, duration) ==
    [id |-> id, userId |-> userId, duration |-> duration, step |-> "upload"]

\* Outcome of the local part of a commit: the error it throws, or "ok".
CommitOutcome(deviceOk, saveOk) ==
    IF NoActiveRecording THEN "NoActiveRecording"
    ELSE IF ~deviceOk THEN "StopFailed"
    ELSE IF ~saveOk THEN "StorageWriteFailed"
    ELSE "ok"

\* The alert handleRecord shows when it stops a recording.  With a user, an
\* error of stopRecordingAndUpload reaches the outer catch.  With no user, an
\* error of stopRecording reaches the outer catch, while an error of
\* saveRecording is caught on the spot and answered with the 'Success' alert.
HandleRecordAlert(deviceOk, saveOk) ==
    LET out == CommitOutcome(deviceOk, saveOk)
    IN  IF user # NoUser
        THEN IF out = "ok" THEN "Recording Saved" ELSE "Error"
        ELSE IF out \in {"NoActiveRecording", "StopFailed"} THEN "Error" ELSE "Success"

\* Whether stopRecordingAndUpload starts the background upload: if (isOnline),
\* isOnline being NetInfo.fetch().isConnected.
SchedulesUpload == netConnected

\* stopRecordingAndUpload(userId, metadata), called by the karaoke screen for a
\* signed-in user: stopRecording, saveRecording, NetInfo.fetch, then the
\* background upload is started and not awaited; returns the local id.
StopRecordingAndUpload(d, deviceOk, saveOk) ==
    /\ user # NoUser
    /\ nextId <= MaxRecordings
    /\ LET out == CommitOutcome(deviceOk, saveOk)
           id  == nextId
           r   == Recording(id, id, CommitDuration(d), FALSE)
       IN  /\ IF out = "NoActiveRecording" THEN UNCHANGED audioVars ELSE StopRecording
           /\ IF out = "ok"
              THEN /\ SaveRecording(r)
                   /\ audioFiles' = audioFiles \cup {r.audioPath}
                   /\ nextId' = nextId + 1
                   /\ bgUploads' = IF SchedulesUpload
                                   THEN bgUploads \cup {BgTask(id, user, CommitDuration(d))}
                                   ELSE bgUploads
                   /\ hist' = [hist EXCEPT
                                 !.fresh = FALSE,
                                 !.offline = IF netConnected THEN @ ELSE @ \cup {id}]
                   /\ passes' = Disquiet(passes)
              ELSE UNCHANGED <<dbVars, audioFiles, nextId, bgUploads, hist, passes>>
    /\ UNCHANGED <<songVars, statusVars, captureVars, envVars, remote, isOnline, isSyncing, currentUserId,
                   netListener, timerVars>>

\* handleRecord with no signed-in user: stopRecording, then saveRecording of a
\* recording whose duration is the playback position; a failing save is
\* reported to the user as a success.
HandleRecordAnonymous(d, deviceOk, saveOk) ==
    /\ user = NoUser
    /\ nextId <= MaxRecordings
    /\ LET out == CommitOutcome(deviceOk, saveOk)
           id  == nextId
           r   == Recording(id, id, d, FALSE)
       IN  /\ IF out = "NoActiveRecording" THEN UNCHANGED audioVars ELSE StopRecording
           /\ IF out = "ok"
              THEN /\ SaveRecording(r)
                   /\ audioFiles' = audioFiles \cup {r.audioPath}
                   /\ nextId' = nextId + 1
                   /\ hist' = [hist EXCEPT !.fresh = FALSE]
                   /\ passes' = Disquiet(passes)
              ELSE UNCHANGED <<dbVars, audioFiles, nextId, hist, passes>>
    /\ UNCHANGED <<songVars, statusVars, captureVars, envVars, remote, isOnline, isSyncing, currentUserId,
                   netListener, timerVars, bgUploads>>

\* A background task that marks the recording synced when its transfer fails.
BgUploadFile_MarksOnFailure(t, ok) ==
    /\ t \in bgUploads /\ t.step = "upload"
    /\ ok \in RemoteOutcomes
    /\ bgUploads' = IF ok THEN (bgUploads \ {t}) \cup {[t EXCEPT !.step = "add"]}
                    ELSE bgUploads \ {t}
    /\ IF ok THEN UNCHANGED dbVars ELSE UpdateRecordingSyncStatus(t.id, TRUE, TRUE)
    /\ UNCHANGED <<songVars, statusVars, captureVars, audioFiles, envVars, remote, syncVars, audioVars, nextId, hist>>

\* uploadRecordingToFirebase, first await: firebaseService.uploadRecordingFile.
\* A failure ends the task in uploadToFirebaseInBackground's catch.
BgUploadFile(t, ok) ==
    /\ t \in bgUploads /\ t.step = "upload"
    /\ ok \in RemoteOutcomes
    /\ bgUploads' = IF ok THEN (bgUploads \ {t}) \cup {[t EXCEPT !.step = "add"]}
                    ELSE bgUploads \ {t}
    /\ UNCHANGED <<songVars, statusVars, captureVars, audioFiles, envVars, dbVars, remote, syncVars, audioVars, nextId, hist>>

\* A background task that goes on to mark the recording whether or not the
\* remote record was created.
BgAddRecording_MarksAnyway(t, ok) ==
    /\ t \in bgUploads /\ t.step = "add"
    /\ ok \in RemoteOutcomes
    /\ remote' = IF ok THEN remote \cup {RemoteDoc(t.userId, t.duration, t.id, "bg")}
                 ELSE remote
    /\ bgUploads' = (bgUploads \ {t}) \cup {[t EXCEPT !.step = "mark"]}
    /\ IF ok THEN Disturb({}) ELSE UNCHANGED <<hist, passes>>
    /\ UNCHANGED <<songVars, statusVars, captureVars, audioFiles, envVars, dbVars, isOnline,
                   isSyncing, currentUserId, netListener, timerVars, audioVars, nextId>>

\* uploadRecordingToFirebase, second await: firebaseService.addRecording.
BgAddRecording(t, ok) ==
    /\ t \in bgUploads /\ t.step = "add"
    /\ ok \in RemoteOutcomes
    /\ remote' = IF ok THEN remote \cup {RemoteDoc(t.userId, t.duration, t.id, "bg")}
                 ELSE remote
    /\ bgUploads' = IF ok THEN (bgUploads \ {t}) \cup {[t EXCEPT !.step = "mark"]}
                    ELSE bgUploads \ {t}
    /\ IF ok THEN Disturb({}) ELSE UNCHANGED <<hist, passes>>
    /\ UNCHANGED <<songVars, statusVars, captureVars, audioFiles, envVars, dbVars, isOnline, isSyncing, currentUserId, netListener,
                   timerVars, audioVars, nextId>>

\* uploadToFirebaseInBackground, last await: updateRecordingSyncStatus(id, true).
BgMarkSynced(t, storageOk) ==
    /\ t \in bgUploads /\ t.step = "mark"
    /\ UpdateRecordingSyncStatus(t.id, TRUE, storageOk)
    /\ bgUploads' = bgUploads \ {t}
    /\ Disturb({t.id})
    /\ UNCHANGED <<songVars, statusVars, captureVars, audioFiles, envVars, remote, isOnline, isSyncing, currentUserId, netListener,
                   timerVars, audioVars, nextId>>

\* ------------------------------------------------------ explore screen
\* handleShareRecording: after a successful share of a local recording,
\* updateRecordingSyncStatus(recording.id, true).
HandleShareRecording(id, shareOk, storageOk) ==
    /\ id \in StoredIds
    /\ IF shareOk
       THEN UpdateRecordingSyncStatus(id, TRUE, storageOk)
       ELSE UNCHANGED dbVars
    /\ IF shareOk THEN Disturb({id}) ELSE UNCHANGED <<hist, passes>>
    /\ UNCHANGED <<songVars, statusVars, captureVars, audioFiles, envVars, remote, isOnline, isSyncing, currentUserId, netListener,
                   timerVars, audioVars, bgUploads, nextId>>

\* deleteRecording(id): the list without the recording; nothing is written
\* on mobile when the id is not in the list.
DeleteRecording(id) ==
    /\ IF isWeb
       THEN /\ karaokemate_recordings' = FilterOutRecording(karaokemate_recordings, id)
            /\ UNCHANGED karaoke_recordings
       ELSE /\ karaoke_recordings' = FilterOutRecording(karaoke_recordings, id)
            /\ UNCHANGED karaokemate_recordings
    /\ IF id \in StoredIds THEN Disturb({id}) ELSE UNCHANGED <<hist, passes>>
    /\ UNCHANGED <<songVars, statusVars, captureVars, audioFiles, envVars, db, sqlRecordings, remote, isOnline, isSyncing,
                   currentUserId, netListener, timerVars,
                   audioVars, bgUploads, nextId>>

\* ---------------------------------------------------------------- Next
Next ==
    \/ \E u \in Users \cup {NoUser}, ok \in BOOLEAN : AuthStateChanged(u, ok)
    \/ Initialize(NoUser)
    \/ \E c \in BOOLEAN : NetInfoEvent(c)
    \/ TimerTick
    \/ ForceSync
    \/ PerformSyncCall
    \/ \E i \in DOMAIN passes, ok \in BOOLEAN : SyncFetch(i, ok)
    \/ \E i \in DOMAIN passes, ok \in BOOLEAN : SyncLoop(i, ok)
    \/ \E i \in DOMAIN passes : SyncFinally(i)
    \/ \E ok \in BOOLEAN : StartRecording(ok)
    \/ \E d \in MetaDurations, dev \in BOOLEAN, sv \in BOOLEAN :
          StopRecordingAndUpload(d, dev, sv)
    \/ \E d \in MetaDurations, dev \in BOOLEAN, sv \in BOOLEAN :
          HandleRecordAnonymous(d, dev, sv)
    \/ \E t \in bgUploads, ok \in BOOLEAN : BgUploadFile(t, ok)
    \/ \E t \in bgUploads, ok \in BOOLEAN : BgAddRecording(t, ok)
    \/ \E t \in bgUploads, ok \in BOOLEAN : BgMarkSynced(t, ok)
    \/ \E id \in RecIds, sh \in BOOLEAN, ok \in BOOLEAN : HandleShareRecording(id, sh, ok)
    \/ \E id \in RecIds : DeleteRecording(id)

Spec == Init /\ [][Next]_vars

\* ------------------------------------------- the reconcile loop at work
\* Rows the SQLite table holds when the database file is opened (ids
\* 1..MaxQueue).
MaxQueue == 2

\* The app starting on a device whose database file 'karaokemate.db' already
\* holds recordings rows: init() opens the file and creates the table only IF
\* NOT EXISTS, so the rows of the file are the rows of the table.
InitQueue ==
    /\ isWeb = FALSE
    /\ storeCalls = {}
    /\ netConnected \in BOOLEAN
    /\ user = NoUser
    /\ db = "open"
    /\ \E n \in 1..MaxQueue :
          sqlRecordings = [id \in 1..n |-> Recording(id, id, DefaultDuration, FALSE)]
    /\ karaoke_recordings = <<>>
    /\ karaokemate_recordings = <<>>
    /\ remote = {}
    /\ isOnline = FALSE
    /\ isSyncing = FALSE
    /\ currentUserId = NoUser
    /\ onStatusChange = NoCallback
    /\ subscribers = {}
    /\ delivered = {}
    /\ songs = {}
    /\ downloadedSongs = <<>>
    /\ songFiles = {}
    /\ songResult = NoSongResult
    /\ netListener = FALSE
    /\ syncInterval = FALSE
    /\ orphanTimers = Untracked
    /\ passes = <<>>
    /\ recordingState = "idle"
    /\ recording = FALSE
    /\ isRecording = FALSE
    /\ bgUploads = {}
    /\ audioFiles = {}
    /\ calls = EmptyBag
    /\ result = Result("none", "none", NoFile)
    /\ handle = 0
    /\ loaded = {}
    /\ nextCapture = 1
    /\ files = {}
    /\ localRecordings = <<>>
    /\ nextId = 1
    /\ hist = NoHistory

\* The handlers that drive the reconciler.
NextQueue ==
    \/ \E u \in Users \cup {NoUser}, ok \in BOOLEAN : AuthStateChanged(u, ok)
    \/ Initialize(NoUser)
    \/ \E c \in BOOLEAN : NetInfoEvent(c)
    \/ TimerTick
    \/ ForceSync
    \/ PerformSyncCall
    \/ \E i \in DOMAIN passes, ok \in BOOLEAN : SyncFetch(i, ok)
    \/ \E i \in DOMAIN passes, ok \in BOOLEAN : SyncLoop(i, ok)
    \/ \E i \in DOMAIN passes : SyncFinally(i)

SpecQueue == InitQueue /\ [][NextQueue]_vars

\* ------------------------------------- AudioService, one await at a time
\* Each call of startRecording, stopRecording and cancelRecording runs up to
\* its next await in one step; the steps of the calls in flight interleave.
\* A device operation and the continuation that awaits it are one step.  The
\* device records with one Audio.Recording at a time (prepareToRecordAsync
\* fails while another one is loaded), and after stopAndUnloadAsync settles,
\* resolved or rejected, its Audio.Recording is no longer recording.

\* What the capture steps leave alone.
storeVars == <<envVars, dbVars, remote, syncVars, statusVars, songVars, bgUploads,
              audioFiles, nextId>>

\* The calls in flight with call c replaced by c2, with c gone, with c added.
Continue(c, c2) == (calls (-) SetToBag({c})) (+) SetToBag({c2})
Finish(c) == calls (-) SetToBag({c})
Begin(c) == calls (+) SetToBag({c})

InFlight == BagToSet(calls)

\* this.recording = null; this._isRecording = false; this._recordingState = 'idle'
ResetCapture == StopRecording /\ handle' = 0

\* startRecording calls that have still to create their Audio.Recording.
PendingStarts ==
    LET Pending(c) == c.op = "start" /\ c.pc \in {"init", "cleanup", "perm"}
    IN  BagCardinality([c \in {d \in InFlight : Pending(d)} |-> calls[c]])

\* startRecording() is called: await this.initialize()
StartCall ==
    /\ BagCardinality(calls) < MaxCalls
    /\ nextCapture + PendingStarts <= MaxCaptures
    /\ calls' = Begin([NoCall EXCEPT !.op = "start", !.pc = "init"])
    /\ UNCHANGED <<storeVars, audioVars, handle, loaded, nextCapture, files,
                   localRecordings, result, hist>>

\* startRecording after initialize: returns when already recording; cleans up
\* a capture that is there in another state (cleanupRecording up to its
\* await); then await Audio.requestPermissionsAsync().
StartAfterInit(c) ==
    /\ c \in InFlight /\ c.op = "start" /\ c.pc = "init"
    /\ IF recordingState = "recording"
       THEN /\ calls' = Finish(c)
            /\ result' = Result("start", "ok", NoFile)
            /\ UNCHANGED recordingState
       ELSE IF recording /\ recordingState # "idle"
            THEN /\ recordingState' = "stopping"
                 /\ calls' = Continue(c, [c EXCEPT !.pc = "cleanup", !.cap = handle])
                 /\ UNCHANGED result
            ELSE /\ calls' = Continue(c, [c EXCEPT !.pc = "perm"])
                 /\ UNCHANGED <<recordingState, result>>
    /\ UNCHANGED <<storeVars, recording, isRecording, handle, loaded, nextCapture,
                   files, localRecordings, hist>>

\* cleanupRecording after stopAndUnloadAsync: an error is swallowed; finally
\* the handle is dropped and the state is idle.
StartAfterCleanup(c) ==
    /\ c \in InFlight /\ c.op = "start" /\ c.pc = "cleanup"
    /\ loaded' = loaded \ {c.cap}
    /\ ResetCapture
    /\ calls' = Continue(c, [c EXCEPT !.pc = "perm", !.cap = 0])
    /\ UNCHANGED <<storeVars, nextCapture, files, localRecordings, result, hist>>

\* startRecording after requestPermissionsAsync: throws when not granted
\* (catch: state idle); else new Audio.Recording() and await
\* prepareToRecordAsync.
StartAfterPermission(c, granted) ==
    /\ c \in InFlight /\ c.op = "start" /\ c.pc = "perm"
    /\ IF granted
       THEN /\ calls' = Continue(c, [c EXCEPT !.pc = "prepare", !.cap = nextCapture])
            /\ nextCapture' = nextCapture + 1
            /\ UNCHANGED <<recordingState, result>>
       ELSE /\ calls' = Finish(c)
            /\ result' = Result("start", "PermissionDenied", NoFile)
            /\ recordingState' = "idle"
            /\ UNCHANGED nextCapture
    /\ UNCHANGED <<storeVars, recording, isRecording, handle, loaded, files,
                   localRecordings, hist>>

\* startRecording after prepareToRecordAsync and startAsync: the new object is
\* recording and becomes the handle; a failure of either is caught with the
\* state set to idle, and rethrown.
StartAfterPrepare(c, deviceOk) ==
    /\ c \in InFlight /\ c.op = "start" /\ c.pc = "prepare"
    /\ calls' = Finish(c)
    /\ IF deviceOk /\ loaded = {}
       THEN /\ loaded' = {c.cap}
            /\ files' = files \cup {TmpFile(c.cap)}
            /\ handle' = c.cap
            /\ recording' = TRUE
            /\ isRecording' = TRUE
            /\ recordingState' = "recording"
            /\ result' = Result("start", "ok", NoFile)
       ELSE /\ recordingState' = "idle"
            /\ result' = Result("start", "StartFailed", NoFile)
            /\ UNCHANGED <<loaded, files, handle, recording, isRecording>>
    /\ UNCHANGED <<storeVars, nextCapture, localRecordings, hist>>

\* stopRecording() is called: the guard throws 'No active recording'; past it
\* the state is stopping and the call awaits this.recording.stopAndUnloadAsync().
StopCall ==
    /\ BagCardinality(calls) < MaxCalls
    /\ IF NoActiveRecording
       THEN /\ result' = Result("stop", "NoActiveRecording", NoFile)
            /\ UNCHANGED <<recordingState, calls>>
       ELSE /\ recordingState' = "stopping"
            /\ calls' = Begin([NoCall EXCEPT !.op = "stop", !.pc = "stop", !.cap = handle])
            /\ UNCHANGED result
    /\ UNCHANGED <<storeVars, recording, isRecording, handle, loaded, nextCapture,
                   files, localRecordings, hist>>

\* stopRecording after stopAndUnloadAsync: a rejection, or a handle that is
\* null by now (this.recording.getURI() throws), ends in the outer catch; else
\* uri = this.recording.getURI() and the call awaits FileSystem.moveAsync.
StopAfterDevice(c, deviceOk) ==
    /\ c \in InFlight /\ c.op = "stop" /\ c.pc = "stop"
    /\ loaded' = loaded \ {c.cap}
    /\ IF deviceOk /\ handle # 0
       THEN /\ calls' = Continue(c, [c EXCEPT !.pc = "move", !.uri = TmpFile(handle)])
            /\ UNCHANGED <<audioVars, handle, result>>
       ELSE /\ calls' = Finish(c)
            /\ result' = Result("stop", "StopFailed", NoFile)
            /\ ResetCapture
    /\ UNCHANGED <<storeVars, nextCapture, files, localRecordings, hist>>

\* The finalize block of stopRecording over the files fs: moveAsync, else
\* copyAsync, else the original uri; ret is what the call goes on to return.
Finalize(fs, uri, moveOk, copyOk) ==
    IF moveOk
    THEN [files |-> (fs \ {uri}) \cup {PermanentFile(uri)}, ret |-> PermanentFile(uri)]
    ELSE IF copyOk
         THEN [files |-> fs \cup {PermanentFile(uri)}, ret |-> PermanentFile(uri)]
         ELSE [files |-> fs, ret |-> uri]

\* localRecordingService.addRecording(uri): this.recordings.unshift(recording)
AddLocalRecording(list, uri) == <<uri>> \o list

\* stopRecording after moveAsync: on success addRecording(permanentUri) (the
\* list is extended before its await); on failure await copyAsync.  A move
\* can succeed only if its source exists.
StopAfterMove(c, moveOk) ==
    /\ c \in InFlight /\ c.op = "stop" /\ c.pc = "move"
    /\ moveOk => c.uri \in files
    /\ IF moveOk
       THEN LET f == Finalize(files, c.uri, TRUE, FALSE) IN
            /\ files' = f.files
            /\ localRecordings' = AddLocalRecording(localRecordings, f.ret)
            /\ calls' = Continue(c, [c EXCEPT !.pc = "added", !.ret = f.ret])
       ELSE /\ calls' = Continue(c, [c EXCEPT !.pc = "copy"])
            /\ UNCHANGED <<files, localRecordings>>
    /\ UNCHANGED <<storeVars, audioVars, handle, loaded, nextCapture, result, hist>>

\* stopRecording after copyAsync: addRecording(permanentUri) on success, else
\* addRecording(uri).  A copy can succeed only if its source exists.
StopAfterCopy(c, copyOk) ==
    /\ c \in InFlight /\ c.op = "stop" /\ c.pc = "copy"
    /\ copyOk => c.uri \in files
    /\ LET f == Finalize(files, c.uri, FALSE, copyOk) IN
       /\ files' = f.files
       /\ localRecordings' = AddLocalRecording(localRecordings, f.ret)
       /\ calls' = Continue(c, [c EXCEPT !.pc = "added", !.ret = f.ret])
    /\ UNCHANGED <<storeVars, audioVars, handle, loaded, nextCapture, result, hist>>

\* stopRecording after addRecording: the handle is dropped, the state is idle
\* and the uri is returned.
StopAfterAdd(c) ==
    /\ c \in InFlight /\ c.op = "stop" /\ c.pc = "added"
    /\ ResetCapture
    /\ calls' = Finish(c)
    /\ result' = Result("stop", "ok", c.ret)
    /\ UNCHANGED <<storeVars, loaded, nextCapture, files, localRecordings, hist>>

\* cancelRecording() returns at its guard.
CancelReturnsAtOnce == ~recording \/ recordingState = "idle"

\* cancelRecording() is called: if (!this.recording || state === 'idle') return;
\* else the state is stopping and the call awaits stopAndUnloadAsync().
CancelCall ==
    /\ BagCardinality(calls) < MaxCalls
    /\ IF CancelReturnsAtOnce
       THEN /\ result' = Result("cancel", "ok", NoFile)
            /\ UNCHANGED <<recordingState, calls, hist>>
       ELSE /\ recordingState' = "stopping"
            /\ calls' = Begin([NoCall EXCEPT !.op = "cancel", !.pc = "stop", !.cap = handle])
            /\ hist' = [hist EXCEPT !.cancelled = @ \cup {handle}]
            /\ UNCHANGED result
    /\ UNCHANGED <<storeVars, recording, isRecording, handle, loaded, nextCapture,
                   files, localRecordings>>

\* cancelRecording after stopAndUnloadAsync: resolved or rejected, the handle
\* is dropped and the state is idle; a rejection is rethrown.
CancelAfterDevice(c, deviceOk) ==
    /\ c \in InFlight /\ c.op = "cancel" /\ c.pc = "stop"
    /\ loaded' = loaded \ {c.cap}
    /\ ResetCapture
    /\ calls' = Finish(c)
    /\ result' = Result("cancel", IF deviceOk THEN "ok" ELSE "StopFailed", NoFile)
    /\ UNCHANGED <<storeVars, nextCapture, files, localRecordings, hist>>

\* The app on a mobile device: the capture calls are what the karaoke screen
\* and the recording hooks issue.
InitCapture == Init /\ ~isWeb /\ netConnected /\ db = "open"

NextCapture ==
    \/ StartCall
    \/ \E c \in InFlight : StartAfterInit(c)
    \/ \E c \in InFlight : StartAfterCleanup(c)
    \/ \E c \in InFlight, granted \in BOOLEAN : StartAfterPermission(c, granted)
    \/ \E c \in InFlight, ok \in BOOLEAN : StartAfterPrepare(c, ok)
    \/ StopCall
    \/ \E c \in InFlight, ok \in BOOLEAN : StopAfterDevice(c, ok)
    \/ \E c \in InFlight, ok \in BOOLEAN : StopAfterMove(c, ok)
    \/ \E c \in InFlight, ok \in BOOLEAN : StopAfterCopy(c, ok)
    \/ \E c \in InFlight : StopAfterAdd(c)
    \/ CancelCall
    \/ \E c \in InFlight, ok \in BOOLEAN : CancelAfterDevice(c, ok)

SpecCapture == InitCapture /\ [][NextCapture]_vars

\* ------------------------------------------- status subscribers
\* The reconciler's handlers together with the screens that register for
\* status changes (both settings screens call setOnStatusChange).
NextStatus ==
    \/ \E s \in Subscribers : SetOnStatusChange(s)
    \/ \E u \in Users \cup {NoUser}, ok \in BOOLEAN : AuthStateChanged(u, ok)
    \/ Initialize(NoUser)
    \/ \E c \in BOOLEAN : NetInfoEvent(c)
    \/ TimerTick
    \/ ForceSync
    \/ PerformSyncCall
    \/ \E i \in DOMAIN passes, ok \in BOOLEAN : SyncFetch(i, ok)
    \/ \E i \in DOMAIN passes, ok \in BOOLEAN : SyncLoop(i, ok)
    \/ \E i \in DOMAIN passes : SyncFinally(i)

SpecStatus == Init /\ [][NextStatus]_vars

\* ------------------------------------------------------- SongService
\* A song row or list entry.  Titles, lyrics and the other descriptive fields
\* play no part in resolving or downloading a song and are left out.
Song(id, audioUrl, isDownloaded) ==
    [id |-> id, audioUrl |-> audioUrl, isDownloaded |-> isDownloaded]

\* The catalog's URL of a song's audio, the substitute URLs downloadFirebaseSong
\* falls back to, and the local file `${documentDirectory}songs/${id}.m4a`.
RemoteUrl(id) == <<"remote", id>>
FallbackUrl == <<"fallback", 0>>
LocalUri(id) == <<"songs", id>>

\* A file of the songs directory: where it is, its size, and the URL its
\* content came from.
SongFile(id, size, from) == [uri |-> LocalUri(id), size |-> size, from |-> from]

\* FileSystem.downloadAsync(url, localPath): the file at localPath is replaced.
WriteSongFile(id, size, from) ==
    {f \in songFiles : f.uri # LocalUri(id)} \cup {SongFile(id, size, from)}

\* databaseService.getSong(id): the row, or null (the empty set) when there is
\* none or the database is not open.
GetSong(id) == IF db = "null" THEN {} ELSE {t \in songs : t.id = id}

\* databaseService.saveSong(song): INSERT OR REPLACE; nothing without a database.
SaveSong(t) ==
    IF db = "null" THEN songs ELSE {u \in songs : u.id # t.id} \cup {t}

\* databaseService.updateSongDownloadStatus(id, isDownloaded).
UpdateSongDownloadStatus(table, id, flag) ==
    IF db = "null" THEN table
    ELSE {IF t.id = id THEN [t EXCEPT !.isDownloaded = flag] ELSE t : t \in table}

\* getDownloadedSong(id): songs.find(song => song.id === id) on the list.
GetDownloadedSong(id) ==
    LET at == {k \in DOMAIN downloadedSongs : downloadedSongs[k].id = id}
    IN  IF at = {} THEN {}
        ELSE {downloadedSongs[CHOOSE k \in at : \A j \in at : k <= j]}

\* saveDownloadedSong(song): replaces the entry of the same id, else unshift.
SaveDownloadedSong(list, t) ==
    IF \E k \in DOMAIN list : list[k].id = t.id
    THEN LET k == CHOOSE j \in DOMAIN list :
                     list[j].id = t.id /\ \A h \in DOMAIN list : list[h].id = t.id => j <= h
         IN  [list EXCEPT ![k] = t]
    ELSE <<t>> \o list

\* songs.filter(song => song.id !== songId)
FilterOutSong(list, id) == SelectSeq(list, LAMBDA t : t.id # id)

\* A local copy the karaoke screen does not use while the device is online.
UsesLocalCopy_OfflineOnly(id) ==
    /\ ~netConnected
    /\ \E t \in GetDownloadedSong(id) : t.isDownloaded

\* loadSong: if (localSong && localSong.isDownloaded)
UsesLocalCopy(id) == \E t \in GetDownloadedSong(id) : t.isDownloaded

\* A screen that goes to the catalog whatever NetInfo reports.
RefusedOffline_Never(online) == FALSE

\* loadSong: if (!isOnline) { Alert.alert('Offline Mode', ...); return; }
RefusedOffline(online) == ~online

\* How firebaseService.getSong can end: the document, null, or a rejection
\* whose message does or does not contain 'Network'.  Offline it rejects.
FetchOutcomes ==
    IF netConnected THEN {"found", "notfound", "network", "error"}
    ELSE {"network", "error"}

\* How audioService.loadSong can end: loaded, or a rejection.
AudioOutcomes == {"ok", "network", "error"}

\* The alert of loadSong's catch block for a rejection of the given kind.
CatchAlert(kind) == IF kind = "network" THEN "Network Error" ELSE "Error"

\* KaraokeScreen.loadSong for the song id: the downloaded-song list first,
\* then NetInfo, then the catalog.
LoadSong(id, fetch, audio) ==
    /\ LET held   == \E k \in DOMAIN downloadedSongs :
                         downloadedSongs[k].id = id /\ downloadedSongs[k].isDownloaded
           online == netConnected
           done(url, alert, netInfo, getSong, fetched) ==
               SongResult("loadSong", id, alert, url, alert, netInfo, getSong,
                          held, online, fetched, FALSE)
       IN  songResult' =
             IF UsesLocalCopy(id)
             THEN LET t == CHOOSE u \in GetDownloadedSong(id) : TRUE
                  IN  done(t.audioUrl,
                           IF audio = "ok" THEN "none" ELSE CatchAlert(audio),
                           FALSE, FALSE, "none")
             ELSE IF RefusedOffline(online)
             THEN done(NoFile, "Offline Mode", TRUE, FALSE, "none")
             ELSE CASE fetch = "found" ->
                         done(RemoteUrl(id),
                              IF audio = "ok" THEN "none" ELSE CatchAlert(audio),
                              TRUE, TRUE, fetch)
                    [] fetch = "notfound" -> done(NoFile, "Error", TRUE, TRUE, fetch)
                    [] OTHER -> done(NoFile, CatchAlert(fetch), TRUE, TRUE, fetch)
    /\ UNCHANGED <<songs, downloadedSongs, songFiles, statusVars, captureVars, audioFiles,
                   envVars, dbVars, remote, syncVars, audioVars, bgUploads, nextId, hist>>

\* What a download operation reports.
Downloaded(op, id, out, empty) ==
    SongResult(op, id, out, NoFile, "none", FALSE, FALSE, FALSE, netConnected, "none", empty)

\* loadSampleSongs(): every sample song that has no row is saved with
\* isDownloaded = false.
LoadSampleSongs ==
    /\ songs' = IF db = "null" THEN songs
                ELSE songs \cup {Song(id, RemoteUrl(id), FALSE) :
                                   id \in {j \in SongIds : GetSong(j) = {}}}
    /\ UNCHANGED <<downloadedSongs, songFiles, songResult, statusVars, captureVars,
                   audioFiles, envVars, dbVars, remote, syncVars, audioVars, bgUploads,
                   nextId, hist>>

\* downloadSong(songId): the row's audio is transferred to the local file;
\* on status 200 the row is saved with the local uri and isDownloaded = true.
\* size is the size of the remote asset, which is the size of the file a
\* status-200 transfer leaves.
DownloadSong(id, status200, size) ==
    /\ LET row == GetSong(id)
           ok  == row # {} /\ netConnected /\ status200
       IN  /\ songFiles' = IF ok THEN WriteSongFile(id, size, RemoteUrl(id))
                           ELSE songFiles
           /\ songs' = IF ok THEN SaveSong(Song(id, LocalUri(id), TRUE)) ELSE songs
           /\ songResult' = Downloaded("downloadSong", id, ok, size = 0)
    /\ UNCHANGED <<downloadedSongs, statusVars, captureVars, audioFiles, envVars, dbVars,
                   remote, syncVars, audioVars, bgUploads, nextId, hist>>

\* How the HEAD request that tests the audio URL can end: it does not answer
\* 200 ("rejected"), it answers 200 with a content-length ("length"), or
\* with none ("nolength").  How the transfer can end: downloadAsync's status
\* is not 200 ("failed"), or it is 200 and the local file holds what was
\* transferred ("intact"), or it is 200 and the local file is empty or missing
\* ("lost").
HeadOutcomes == {"rejected", "length", "nolength"}
TransferOutcomes == {"failed", "intact", "lost"}

\* downloadFirebaseSong(firebaseSongId).  fetch: how firebaseService.getSong
\* ends; head: how the HEAD request ends; size: the size of the remote asset;
\* fallbackOk: one of the two substitute URLs answers 200; transfer: how
\* downloadAsync ends.
DownloadFirebaseSong(id, fetch, head, size, fallbackOk, transfer) ==
    /\ LET urlTest == head # "rejected" /\ ~(head = "length" /\ size = 0)
           url      == IF urlTest THEN RemoteUrl(id) ELSE FallbackUrl
           proceeds == fetch = "found" /\ (urlTest \/ fallbackOk)
           written  == proceeds /\ transfer # "failed"
           fileSize == IF transfer = "lost" THEN 0
                       ELSE IF url = FallbackUrl THEN 1 ELSE size
           ok       == written /\ fileSize # 0
       IN  /\ songFiles' = IF written THEN WriteSongFile(id, fileSize, url) ELSE songFiles
           /\ downloadedSongs' =
                 IF ok THEN SaveDownloadedSong(downloadedSongs, Song(id, LocalUri(id), TRUE))
                 ELSE downloadedSongs
           /\ songResult' = Downloaded("downloadFirebaseSong", id, ok,
                                       size = 0 \/ (written /\ fileSize = 0))
    /\ UNCHANGED <<songs, statusVars, captureVars, audioFiles, envVars, dbVars, remote,
                   syncVars, audioVars, bgUploads, nextId, hist>>

\* deleteDownloadedSong(songId), the definition in force (the later of the
\* two in the class): the entry leaves the list; no file is deleted.
DeleteDownloadedSong(id) ==
    /\ downloadedSongs' = FilterOutSong(downloadedSongs, id)
    /\ songResult' = Downloaded("deleteDownloadedSong", id,
                                \E k \in DOMAIN downloadedSongs : downloadedSongs[k].id = id,
                                FALSE)
    /\ UNCHANGED <<songs, songFiles, statusVars, captureVars, audioFiles, envVars, dbVars,
                   remote, syncVars, audioVars, bgUploads, nextId, hist>>

\* syncSongToFirebase(songId): after the catalog accepts the row,
\* updateSongDownloadStatus(songId, true).
SyncSongToFirebase(id, ok) ==
    /\ ok \in RemoteOutcomes
    /\ LET done == GetSong(id) # {} /\ ok
       IN  /\ songs' = IF done THEN UpdateSongDownloadStatus(songs, id, TRUE) ELSE songs
           /\ songResult' = Downloaded("syncSongToFirebase", id, done, FALSE)
    /\ UNCHANGED <<downloadedSongs, songFiles, statusVars, captureVars, audioFiles, envVars,
                   dbVars, remote, syncVars, audioVars, bgUploads, nextId, hist>>

\* handleClearCache (after the user confirms): every row with isDownloaded is
\* set to isDownloaded = false.
RECURSIVE ClearRows(_, _)
ClearRows(table, ids) ==
    IF ids = {} THEN table
    ELSE LET id == CHOOSE j \in ids : TRUE
         IN  ClearRows(UpdateSongDownloadStatus(table, id, FALSE), ids \ {id})

HandleClearCache ==
    /\ songs' = ClearRows(songs, {t.id : t \in {u \in songs : db # "null" /\ u.isDownloaded}})
    /\ UNCHANGED <<downloadedSongs, songFiles, songResult, statusVars, captureVars,
                   audioFiles, envVars, dbVars, remote, syncVars, audioVars, bgUploads,
                   nextId, hist>>

\* The song operations on a mobile device, with the network coming and going.
InitSongs == Init /\ ~isWeb

NextSongs ==
    \/ \E c \in BOOLEAN : NetInfoEvent(c)
    \/ LoadSampleSongs
    \/ \E id \in SongIds, fetch \in FetchOutcomes, audio \in AudioOutcomes :
          LoadSong(id, fetch, audio)
    \/ \E id \in SongIds, status200 \in BOOLEAN, size \in 0..1 :
          DownloadSong(id, status200, size)
    \/ \E id \in SongIds, fetch \in FetchOutcomes :
          IF fetch # "found"
          THEN DownloadFirebaseSong(id, fetch, "rejected", 0, FALSE, "failed")
          ELSE \E head \in HeadOutcomes, size \in 0..1, fallbackOk \in BOOLEAN,
                  transfer \in TransferOutcomes :
                  DownloadFirebaseSong(id, fetch, head, size, fallbackOk, transfer)
    \/ \E id \in SongIds : DeleteDownloadedSong(id)
    \/ \E id \in SongIds, ok \in BOOLEAN : SyncSongToFirebase(id, ok)
    \/ HandleClearCache

SpecSongs == InitSongs /\ [][NextSongs]_vars

\* ------------------------------------------------ timers and cleanup()
\* The settings screen's effect runs loadSettings, and with it initialize(),
\* again on every change of user or userProfile; cleanup() clears the timer
\* whose id the service holds.  The timers are counted from the start.
InitTimers == Constructed /\ orphanTimers = 0 /\ ~isWeb /\ db = "open"

NextTimers ==
    \/ \E u \in Users \cup {NoUser}, ok \in BOOLEAN : AuthStateChanged(u, ok)
    \/ Initialize(NoUser)
    \/ Cleanup
    \/ \E c \in BOOLEAN : NetInfoEvent(c)
    \/ TimerTick
    \/ \E i \in DOMAIN passes, ok \in BOOLEAN : SyncFetch(i, ok)
    \/ \E i \in DOMAIN passes, ok \in BOOLEAN : SyncLoop(i, ok)
    \/ \E i \in DOMAIN passes : SyncFinally(i)

SpecTimers == InitTimers /\ [][NextTimers]_vars

\* ------------------------- the recording store, one await at a time
\* saveRecording and deleteRecording on mobile: await AsyncStorage.getItem,
\* change the parsed list, await AsyncStorage.setItem with the whole list.
\* A call runs up to its next await in one step; the storage runs the
\* operations it is given one after the other.  Every saveRecording call
\* carries a fresh id; MaxSaves bounds their number and the calls in flight.
MaxSaves == 2

\* What the steps of the store operations leave alone.
aloofVars == <<songVars, statusVars, captureVars, audioFiles, isWeb, netConnected, user,
               db, sqlRecordings, karaokemate_recordings, remote, syncVars,
               audioVars, bgUploads>>

\* saveRecording(recording) is called: await AsyncStorage.getItem(...)
SaveCall ==
    /\ nextId <= MaxSaves /\ Cardinality(storeCalls) < MaxSaves
    /\ storeCalls' = storeCalls \cup
          {[op |-> "save", id |-> nextId, pc |-> "read", list |-> <<>>]}
    /\ nextId' = nextId + 1
    /\ UNCHANGED <<aloofVars, karaoke_recordings, hist>>

\* deleteRecording(id) is called: await AsyncStorage.getItem(...)
DeleteCall(id) ==
    /\ Cardinality(storeCalls) < MaxSaves
    /\ storeCalls' = storeCalls \cup
          {[op |-> "delete", id |-> id, pc |-> "read", list |-> <<>>]}
    /\ UNCHANGED <<aloofVars, karaoke_recordings, nextId, hist>>

\* getItem resolves with the list as it is stored now.  saveRecording
\* unshifts its recording; deleteRecording filters its id out and returns when
\* nothing was removed.  Each then awaits setItem with its list.
StoreRead(c) ==
    /\ c \in storeCalls /\ c.pc = "read"
    /\ LET list == IF c.op = "save"
                   THEN SaveAsyncRecording(karaoke_recordings,
                                           Recording(c.id, c.id, DefaultDuration, FALSE))
                   ELSE FilterOutRecording(karaoke_recordings, c.id)
       IN  storeCalls' =
              IF c.op = "delete" /\ Len(list) = Len(karaoke_recordings)
              THEN storeCalls \ {c}
              ELSE (storeCalls \ {c}) \cup {[c EXCEPT !.pc = "write", !.list = list]}
    /\ UNCHANGED <<aloofVars, karaoke_recordings, nextId, hist>>

\* setItem runs: the stored list is the list of the call, which returns; or
\* the storage rejects the write and the call throws.
StoreWrite(c, ok) ==
    /\ c \in storeCalls /\ c.pc = "write"
    /\ storeCalls' = storeCalls \ {c}
    /\ IF ok
       THEN /\ karaoke_recordings' = c.list
            /\ hist' = [hist EXCEPT !.saved = IF c.op = "save" THEN @ \cup {c.id}
                                                              ELSE @ \ {c.id}]
       ELSE UNCHANGED <<karaoke_recordings, hist>>
    /\ UNCHANGED <<aloofVars, nextId>>

InitStore == Init /\ ~isWeb /\ db = "open"

NextStore ==
    \/ SaveCall
    \/ \E id \in 1..MaxSaves : DeleteCall(id)
    \/ \E c \in storeCalls : StoreRead(c)
    \/ \E c \in storeCalls, ok \in BOOLEAN : StoreWrite(c, ok)

SpecStore == InitStore /\ [][NextStore]_vars

\* ============================================================== claims

\* The ids of the rows of the SQLite table.
SqlIds == {r.id : r \in Range(sqlRecordings)}

\* The remote documents made from the local Recording id.
RemoteDocsOf(id) == {d \in remote : d.localId = id}

\* A commit of the recording id that returns the id: stopRecordingAndUpload
\* with a working device and a successful save.
CommitReturns(id) ==
    /\ id = nextId
    /\ \E d \in MetaDurations, dev \in BOOLEAN, sv \in BOOLEAN :
          /\ CommitOutcome(dev, sv) = "ok"
          /\ StopRecordingAndUpload(d, dev, sv)

C2_WorkQueueComplete ==
    [][\A id \in RecIds :
          CommitReturns(id) =>
             /\ id \in UnsyncedIds'
             /\ (~netConnected /\ StoredRecordings = <<>>) => UnsyncedIds' = {id}]_vars

\* C3 (scenario A): a recording is committed while offline with duration d;
\* then, with the network online and a user signed in, a reconcile pass runs
\* from start to end with no failing call, the user id set throughout and no
\* other handler writing to the stores meanwhile.  When the pass ends the
\* recording is not in getUnsyncedRecordings() and the remote store holds a
\* record of duration d.
C3_ScenarioA ==
    [][\A i \in DOMAIN passes :
          ( /\ SyncFinally(i)
            /\ passes[i].clean /\ passes[i].quiet
            /\ currentUserId # NoUser /\ isOnline /\ netConnected )
          => \A id \in hist.offline : \A r \in GetRecording(id) :
                /\ id \notin UnsyncedIds'
                /\ \E doc \in remote' : doc.duration = r.duration]_vars

\* C4 (exactly-once remote creation): under every interleaving of the
\* background uploads and the reconcile passes, and every outcome of
\* updateRecordingSyncStatus, no local Recording ever has more than one remote
\* record, so no attempt on a recording that has its record writes another.
C4_AtMostOneRemoteRecord ==
    \A id \in RecIds : Cardinality(RemoteDocsOf(id)) <= 1

\* A reconcile pass is in its upload loop while a background upload has
\* created the remote record of a stored recording and not yet marked it.
C4_Witness ==
    \E i \in DOMAIN passes, t \in bgUploads :
        /\ passes[i].pc = "loop"
        /\ t.step = "mark"
        /\ RemoteDocsOf(t.id) # {}
        /\ \E r \in GetRecording(t.id) : ~r.isSynced

\* C5: every stored Recording with isSynced = true has a remote record made by
\* an upload of that recording (so nothing but the last step of a successful
\* upload sets the flag).
C5_SyncedHasRemoteRecord ==
    \A r \in Range(StoredRecordings) : r.isSynced => RemoteDocsOf(r.id) # {}

MarkSynced(s, id) == UpdateRecordingSyncStatusOn(s, id, TRUE, TRUE)

C8_IdempotentReconcile ==
    [][\A i \in DOMAIN passes :
          ( /\ hist.fresh /\ passes[i].clean /\ passes[i].quiet
            /\ \E ok \in BOOLEAN :
                  SyncFetch(i, ok) \/ SyncLoop(i, ok) \/ SyncFinally(i) )
          => /\ remote' = remote
             /\ UnsyncedIds' = UnsyncedIds]_vars

\* The second of two such passes is about to end, a recording that is not
\* marked synced being in the store.
C8_Witness ==
    /\ hist.fresh
    /\ \E r \in Range(StoredRecordings) : ~r.isSynced
    /\ \E i \in DOMAIN passes :
          passes[i].pc = "finally" /\ passes[i].clean /\ passes[i].quiet

\* C9 (reentrancy guard): whatever the interleaving of the timer, the
\* offline-to-online event and forceSync, at most one reconcile pass is in
\* flight; while one is, no step starts another, and a performSync call
\* changes no state; when the pass ends no pass is in flight, so the call was
\* dropped, not queued.
C9_ReentrancyGuard ==
    /\ [](Len(passes) <= 1 /\ (isSyncing <=> passes # <<>>))
    /\ [][isSyncing => Len(passes') <= Len(passes)]_vars
    /\ [][(isSyncing /\ (PerformSyncCall \/ ForceSync \/ TimerTick)) => UNCHANGED vars]_vars
    /\ [][\A i \in DOMAIN passes :
             SyncFinally(i) => (passes' = <<>> /\ ~isSyncing')]_vars

\* A pass is in flight while the timer is running and forceSync is accepted:
\* every trigger can fire during the pass.
C9_Witness ==
    /\ isSyncing /\ Len(passes) = 1
    /\ syncInterval /\ netListener /\ isOnline /\ currentUserId # NoUser

\* C10: performSync called while the network is reported offline returns
\* without an error and starts no pass (hence makes no remote call): the local
\* store, the remote store and the syncing flag are unchanged.
C10_OfflineNoOp ==
    [][(PerformSyncCall /\ (~isOnline \/ ~netConnected))
          => UNCHANGED <<dbVars, remote, isSyncing, passes>>]_vars

\* Offline with no pass in flight, an unsynced recording in the store and a
\* user id set: only the network guard keeps performSync from starting a pass.
C10_Witness ==
    /\ ~isOnline /\ ~netConnected /\ ~isSyncing
    /\ currentUserId # NoUser /\ netListener
    /\ \E r \in Range(StoredRecordings) : ~r.isSynced

\* C12: forceSync called while offline fails at once with the NoConnection
\* error; it starts no reconcile pass, leaves nothing behind that would start
\* one later, and leaves the local store and the syncing flag unchanged.
C12_ForceSyncOffline ==
    /\ [](~isOnline => ForceSyncOutcome = "NoConnection")
    /\ [][(ForceSync /\ ~isOnline)
             => UNCHANGED <<dbVars, remote, isSyncing, passes, bgUploads>>]_vars

\* Offline after initialize, a user id set and an unsynced recording stored:
\* forceSync has something to refuse.
C12_Witness ==
    /\ ~isOnline /\ netListener /\ currentUserId # NoUser
    /\ ForceSyncOutcome = "NoConnection"
    /\ \E r \in Range(StoredRecordings) : ~r.isSynced

\* C13: when the local save of a commit fails, the commit as a whole fails and
\* the caller is told: no recording is stored and no id handed out, no
\* background upload is scheduled, and the screen reports an error, with a user
\* signed in and with none.
C13_SaveFailureSurfaced ==
    [][\A d \in MetaDurations, dev \in BOOLEAN, sv \in BOOLEAN :
          ( /\ CommitOutcome(dev, sv) = "StorageWriteFailed"
            /\ StopRecordingAndUpload(d, dev, sv) \/ HandleRecordAnonymous(d, dev, sv) )
          => /\ UNCHANGED <<dbVars, nextId, bgUploads>>
             /\ HandleRecordAlert(dev, sv) = "Error"]_vars

\* A step of the background upload t that fails: the upload of the audio, the
\* creation of the remote record, or the write of the sync status.
BgStepFails(t) ==
    BgUploadFile(t, FALSE) \/ BgAddRecording(t, FALSE) \/ BgMarkSynced(t, FALSE)

SaveRecordingOn(list, r) ==
    IF isWeb THEN SaveWebRecording(list, r) ELSE SaveAsyncRecording(list, r)

\* C19: saveRecording is an idempotent upsert by id.  On every reachable store
\* state and for every recording r, saving r twice gives the list that saving
\* it once gives; and no two stored records share an id.
C19_SaveIdempotentUpsert ==
    /\ \A id \in RecIds, d \in MetaDurations :
          LET r == Recording(id, id, d, FALSE)
          IN  SaveRecordingOn(SaveRecordingOn(GetRecordings, r), r)
                 = SaveRecordingOn(GetRecordings, r)
    /\ \A i, j \in DOMAIN GetRecordings :
          GetRecordings[i].id = GetRecordings[j].id => i = j

\* C20: deleteRecording(id) removes the recording with that id, releases the
\* audio file it owns and leaves every other recording as it was; with no
\* recording of that id it changes neither the store nor the files.
C20_DeleteReleasesAsset ==
    [][\A id \in RecIds :
          DeleteRecording(id)
          => IF id \in StoredIds
             THEN /\ GetRecording(id)' = {}
                  /\ \A r \in GetRecording(id) : r.audioPath \notin audioFiles'
                  /\ \A o \in RecIds \ {id} : GetRecording(o)' = GetRecording(o)
             ELSE UNCHANGED <<dbVars, audioFiles>>]_vars

\* A step of pass i in which the upload or the remote create of the recording
\* at the head of its queue fails.
ItemFails(i) ==
    /\ passes[i].pc = "loop" /\ passes[i].queue # <<>>
    /\ passes[i].step \in {"upload", "add"}
    /\ \E ok \in BOOLEAN : SyncLoop(i, ok)
    /\ passes'[i].step = "upload"

C15_StopRejectedUnlessRecording ==
    [][(StopCall /\ recordingState # "recording")
          => /\ result' = Result("stop", "NoActiveRecording", NoFile)
             /\ UNCHANGED <<audioVars, handle, loaded, files, localRecordings,
                            calls>>]_vars

\* A stopRecording call has been rejected in idle with no call in flight.
C15_Witness ==
    /\ result = Result("stop", "NoActiveRecording", NoFile)
    /\ recordingState = "idle"
    /\ calls = EmptyBag

\* C16: single active capture.  At most one Audio.Recording is recording on
\* the device and it is the one the handle refers to, under every
\* interleaving of the calls; and startRecording in state `recording` changes
\* nothing.
C16_SingleActiveCapture ==
    /\ [](Cardinality(loaded) <= 1 /\ \A c \in loaded : c = handle)
    /\ [][\A c \in InFlight :
             (StartAfterInit(c) /\ recordingState = "recording")
             => UNCHANGED <<audioVars, handle, loaded, files, localRecordings>>]_vars

\* C17: finalize fallback.  Once stopRecording holds the uri of the stopped
\* capture it goes on to return, whatever the move and the copy do: the
\* permanent file when the move succeeds, else the permanent file when the
\* copy succeeds, else the uri itself; and the file it returns exists.
C17_FinalizeFallback ==
    /\ [][\A c \in InFlight :
             (StopAfterMove(c, TRUE) \/ StopAfterCopy(c, TRUE))
             => /\ [c EXCEPT !.pc = "added", !.ret = PermanentFile(c.uri)] \in InFlight'
                /\ PermanentFile(c.uri) \in files']_vars
    /\ [][\A c \in InFlight :
             StopAfterCopy(c, FALSE)
             => /\ [c EXCEPT !.pc = "added", !.ret = c.uri] \in InFlight'
                /\ c.uri \in files']_vars
    /\ [][\A c \in InFlight :
             StopAfterAdd(c)
             => /\ result' = Result("stop", "ok", c.ret)
                /\ c.ret \in files']_vars

\* C18: cancelRecording from idle (or with no handle) changes nothing; from
\* recording or stopping it ends idle with no handle whether the device stop
\* resolves or rejects, and the audio of a capture it has gone on to stop is
\* not added to the local recording list.
C18_CancelDiscards ==
    /\ [][(CancelCall /\ (~recording \/ recordingState = "idle"))
             => UNCHANGED <<audioVars, handle, loaded, files, localRecordings,
                            calls>>]_vars
    /\ [][\A c \in InFlight, ok \in BOOLEAN :
             CancelAfterDevice(c, ok)
             => recordingState' = "idle" /\ handle' = 0 /\ ~recording']_vars
    /\ [][localRecordings' # localRecordings
             => Head(localRecordings')[2] \notin hist.cancelled]_vars

\* A step of the reconciler: one of its triggers, or a step of a pass.
ReconcilerStep ==
    \/ TimerTick
    \/ \E c \in BOOLEAN : NetInfoEvent(c)
    \/ ForceSync
    \/ PerformSyncCall
    \/ \E i \in DOMAIN passes, ok \in BOOLEAN : SyncFetch(i, ok) \/ SyncLoop(i, ok)
    \/ \E i \in DOMAIN passes : SyncFinally(i)

\* C26: with no reconciler user id, no step of the reconciler (timer tick,
\* connectivity event, forceSync, or a step of the pass one of them started)
\* creates a remote record or changes a stored recording.
C26_NoUserNoRemoteOperation ==
    [][(currentUserId = NoUser /\ ReconcilerStep)
          => /\ remote' = remote
             /\ GetRecordings' = GetRecordings]_vars

\* A pass is in flight with no reconciler user id while the network is up and
\* an unsynced recording is stored.
C26_Witness ==
    /\ currentUserId = NoUser /\ netConnected /\ isOnline
    /\ \E i \in DOMAIN passes : passes[i].pc = "finally"
    /\ \E r \in Range(StoredRecordings) : ~r.isSynced

\* C28: with the connectivity listener registered, a user signed in and no
\* pass in flight, every event that takes the network from offline to online
\* starts a reconcile pass; an event that reports online when the network was
\* already online starts none.
C28_OnlineTransitionStartsPass ==
    [][(NetInfoEvent(TRUE) /\ netListener /\ user # NoUser /\ ~isSyncing)
          => IF ~netConnected
             THEN isSyncing' /\ Len(passes') = Len(passes) + 1
             ELSE passes' = passes]_vars

\* getSyncStatus(): the cached isOnline and isSyncing fields and the length
\* of databaseService.getUnsyncedRecordings().
GetSyncStatus ==
    [isOnline       |-> isOnline,
     isSyncing      |-> isSyncing,
     pendingUploads |-> Len(GetUnsyncedRecordings)]

\* C29: once the reconciler listens to the Network Monitor, getSyncStatus()
\* returns isOnline equal to the monitor's state, isSyncing equal to whether a
\* pass is in flight, and pendingUploads equal to the number of stored
\* recordings with isSynced = false.
C29_StatusDerivedOnDemand ==
    netListener =>
        /\ GetSyncStatus.isOnline = netConnected
        /\ GetSyncStatus.isSyncing = (passes # <<>>)
        /\ GetSyncStatus.pendingUploads
              = Cardinality({i \in DOMAIN StoredRecordings :
                                ~StoredRecordings[i].isSynced})

\* A step of an upload attempt fails: the audio transfer or the remote create
\* of a background task, or of the item at the head of a pass's queue.
UploadStepFails ==
    \/ \E t \in bgUploads : BgUploadFile(t, FALSE) \/ BgAddRecording(t, FALSE)
    \/ \E i \in DOMAIN passes : ItemFails(i)

\* C30: a failing step of an upload attempt, on the background path or on the
\* reconcile path, leaves the recording stores and the audio files as they
\* were: every stored recording keeps every field, isSynced included.
C30_FailedUploadLeavesRecording ==
    [][UploadStepFails => UNCHANGED <<dbVars, audioFiles>>]_vars

\* A background upload has transferred its audio and is about to create the
\* remote record with the network down, its recording stored unsynced.
C30_Witness ==
    /\ ~netConnected
    /\ \E t \in bgUploads :
          /\ t.step = "add"
          /\ \E r \in GetRecording(t.id) : ~r.isSynced /\ r.audioPath \in audioFiles

\* ------------------------------------------------ fair scheduling
\* The periodic timer keeps firing and a pass in flight keeps taking its steps
\* (weak fairness); a remote call or store write that is attempted again and
\* again eventually succeeds (strong fairness of the successful outcome).
Fairness ==
    /\ WF_vars(TimerTick)
    /\ WF_vars(\E i \in DOMAIN passes : SyncFinally(i))
    /\ SF_vars(\E i \in DOMAIN passes : SyncFetch(i, TRUE))
    /\ SF_vars(\E i \in DOMAIN passes : SyncLoop(i, TRUE))
    /\ SF_vars(\E t \in bgUploads : BgUploadFile(t, TRUE))
    /\ SF_vars(\E t \in bgUploads : BgAddRecording(t, TRUE))
    /\ SF_vars(\E t \in bgUploads : BgMarkSynced(t, TRUE))

SpecFair == Spec /\ Fairness

\* A user is signed in and known to the reconciler, the network is up and seen
\* to be up, and the periodic timer is registered.
Steady ==
    /\ user # NoUser /\ currentUserId = user
    /\ netConnected /\ isOnline
    /\ syncInterval

\* C27: eventual sync.  If from some point on the user stays signed in and the
\* network stays online, then under fair scheduling of the timer and of the
\* passes every stored recording that is unsynced is eventually synced (or
\* deleted).
C27_EventualSync ==
    (<>[]Steady)
       => \A id \in RecIds :
             (\E r \in GetRecording(id) : ~r.isSynced)
                ~> (\A r \in GetRecording(id) : r.isSynced)

\* C25: every change of the status (isOnline or isSyncing) is notified to
\* every subscriber that has registered, whatever was registered after it.
C25_AllSubscribersNotified ==
    [][(isOnline' # isOnline \/ isSyncing' # isSyncing)
          => subscribers \subseteq delivered']_vars

\* C21: offline song resolution.  Whenever the downloaded-song list holds the
\* requested song with isDownloaded = true, loadSong gives the screen that
\* song (its local audio) and calls neither NetInfo nor the remote catalog,
\* whatever the network state.
C21_LocalCopyNoNetwork ==
    (songResult.op = "loadSong" /\ songResult.held)
       => /\ songResult.audioUrl = LocalUri(songResult.id)
          /\ ~songResult.netInfo
          /\ ~songResult.getSong
          /\ songResult.alert # "Offline Mode"

\* loadSong has resolved a song from the list while the device was online,
\* and its audio loaded.
C21_Witness ==
    /\ songResult.op = "loadSong" /\ songResult.held
    /\ songResult.online /\ songResult.alert = "none"

\* C22: with no downloaded copy, loadSong offline shows the 'Offline Mode'
\* alert, resolves no song and does not call the remote catalog; online with a
\* failing remote fetch it resolves no song and shows an alert other than
\* 'Offline Mode'.
C22_OfflineAndFetchFailure ==
    (songResult.op = "loadSong" /\ ~songResult.held)
       => /\ ~songResult.online
               => /\ songResult.alert = "Offline Mode"
                  /\ ~songResult.getSong
                  /\ songResult.audioUrl = NoFile
          /\ (songResult.online /\ songResult.fetched # "found")
               => /\ songResult.alert \in {"Network Error", "Error"}
                  /\ songResult.getSong
                  /\ songResult.audioUrl = NoFile

\* loadSong was refused offline for a song with no downloaded copy.
C22_Witness ==
    /\ songResult.op = "loadSong" /\ ~songResult.held /\ ~songResult.online
    /\ songResult.alert = "Offline Mode"

\* A call of one of the two download operations for the song id.
DownloadStep(id) ==
    \/ \E status200 \in BOOLEAN, size \in 0..1 : DownloadSong(id, status200, size)
    \/ \E fetch \in FetchOutcomes, head \in HeadOutcomes, size \in 0..1,
          fallbackOk \in BOOLEAN, transfer \in TransferOutcomes :
          DownloadFirebaseSong(id, fetch, head, size, fallbackOk, transfer)

\* C23: a download (downloadSong or downloadFirebaseSong) against an empty
\* remote asset, or one that leaves an empty or missing local file, returns
\* false and leaves the songs table and the downloaded-song list unchanged.
C23_EmptyDownloadFails ==
    [][\A id \in SongIds :
          (DownloadStep(id) /\ songResult'.empty)
             => /\ songResult'.out = FALSE
                /\ UNCHANGED <<songs, downloadedSongs>>]_vars

\* The rows and list entries flagged isDownloaded, and the ids they carry.
FlaggedSongs == {t \in songs \cup Range(downloadedSongs) : t.isDownloaded}
IsDownloaded(id) == \E t \in FlaggedSongs : t.id = id

\* The song's audioUrl is its local file, and the file is there and non-empty.
HasLocalAudio(t) ==
    /\ t.audioUrl = LocalUri(t.id)
    /\ \E f \in songFiles : f.uri = t.audioUrl /\ f.size > 0

\* C24: isDownloaded lifecycle.  In every reachable state, every song flagged
\* isDownloaded (a row of the songs table or an entry of the downloaded-song
\* list) has a non-empty local file at its audioUrl.
C24_DownloadedLifecycle == \A t \in FlaggedSongs : HasLocalAudio(t)

\* The recording a pass is working on.
Current(p) == Head(p.queue).id

\* C31: ordering within a sync attempt, on the background path and on the
\* reconcile path.  A remote record is created only by an attempt that is at
\* its create step; an attempt reaches its create step only from its upload
\* step, with the network up, and its mark step only from its create step, in
\* the step that creates the remote record; and the store is written by an
\* attempt only at its mark step, with the recording's remote record there.
C31_UploadCreateMarkOrder ==
    [][/\ \A d \in remote' \ remote :
             \/ /\ d.via = "bg"
                /\ \E t \in bgUploads : t.step = "add" /\ t.id = d.localId
             \/ /\ d.via = "sync"
                /\ \E i \in DOMAIN passes :
                      /\ passes[i].pc = "loop" /\ passes[i].queue # <<>>
                      /\ passes[i].step = "add" /\ Current(passes[i]) = d.localId
       /\ \A t \in bgUploads' \ bgUploads :
             /\ t.step = "add"
                   => [t EXCEPT !.step = "upload"] \in bgUploads /\ netConnected
             /\ t.step = "mark"
                   => /\ [t EXCEPT !.step = "add"] \in bgUploads
                      /\ \E d \in remote' \ remote : d.localId = t.id
       /\ \A t \in bgUploads :
             (\E ok \in BOOLEAN : BgMarkSynced(t, ok))
                => \E d \in remote : d.localId = t.id /\ d.via = "bg"
       /\ \A i \in DOMAIN passes :
             (\E ok \in BOOLEAN : SyncLoop(i, ok)) /\ passes[i].queue # <<>>
                => LET p == passes[i]
                       q == passes'[i]
                   IN  /\ (q.step = "add" /\ q.queue = p.queue)
                             => p.step = "upload" /\ netConnected
                       /\ q.step = "mark"
                             => /\ p.step = "add"
                                /\ \E d \in remote' \ remote : d.localId = Current(p)
                       /\ dbVars' # dbVars
                             => /\ p.step = "mark"
                                /\ \E d \in remote :
                                      d.localId = Current(p) /\ d.via = "sync"]_vars

\* A background attempt is at its mark step, its remote record created.
C31_Witness ==
    \E t \in bgUploads :
        /\ t.step = "mark"
        /\ \E d \in remote : d.localId = t.id /\ d.via = "bg"
        /\ \E r \in GetRecording(t.id) : ~r.isSynced

\* C32: every step leaves the capture state one of idle, recording, stopping,
\* and every change of it is a move along idle -> recording -> stopping -> idle.
C32_CaptureStateMachine ==
    [][/\ recordingState' \in {"idle", "recording", "stopping"}
       /\ recordingState' # recordingState
             => <<recordingState, recordingState'>> \in
                   {<<"idle", "recording">>, <<"recording", "stopping">>,
                    <<"stopping", "idle">>}]_vars

\* C37: a stopRecording whose device stop fails, or that finds no handle, ends
\* with the error, state idle, no handle and isRecording false, so that the
\* next startRecording does not return at its guard; and whenever no call is
\* in flight, the state is idle exactly when there is no handle and
\* isRecording is false.
C37_FailedStopNeverWedges ==
    [][/\ \A c \in InFlight :
             (c.op = "stop" /\ c.pc = "stop" /\ c \notin BagToSet(calls')
                /\ BagCardinality(calls') < BagCardinality(calls))
                => /\ result' = Result("stop", "StopFailed", NoFile)
                   /\ recordingState' = "idle" /\ handle' = 0
                   /\ ~isRecording' /\ ~recording'
       /\ calls' = EmptyBag
             => (recordingState' = "idle" <=> (handle' = 0 /\ ~isRecording'))]_vars

\* C33: a NetInfo event handled by the listener that reports the value
\* isOnline already has invokes no status callback, and one that changes
\* isOnline invokes the registered callback.
C33_NotifiedOnlyOnTransition ==
    [][\A c \in BOOLEAN :
          (NetInfoEvent(c) /\ netListener)
             => /\ isOnline' = isOnline => delivered' = delivered
                /\ (isOnline' # isOnline /\ onStatusChange # NoCallback)
                      => onStatusChange \in delivered']_vars

\* C35: while a user is signed in, the reconciler's currentUserId is that
\* user's id.
C35_UserIdFollowsSignIn ==
    user # NoUser => currentUserId = user

\* C36: while the service holds no timer id (before the first initialize,
\* and from cleanup() to the next initialize), no live timer's tick would
\* start a pass.
C36_NoTickAfterCleanup ==
    ~syncInterval => ~(TimerLive /\ isOnline /\ ~isSyncing /\ currentUserId # NoUser)

\* Every await of a pass in flight settles, resolved or rejected, and the
\* pass goes on to its next statement.
PassFairness ==
    /\ WF_vars(\E i \in DOMAIN passes, ok \in BOOLEAN : SyncFetch(i, ok))
    /\ WF_vars(\E i \in DOMAIN passes, ok \in BOOLEAN : SyncLoop(i, ok))
    /\ WF_vars(\E i \in DOMAIN passes : SyncFinally(i))

SpecQueueFair == SpecQueue /\ PassFairness

\* C34: whenever isSyncing is set, it is reset later on, whether the steps of
\* the pass succeed, fail for an item, or the read of the queue throws.
C34_SyncingFlagReset ==
    isSyncing ~> ~isSyncing

\* A pass in which something has failed has reached its finally block with
\* the flag still set.
C34_Witness ==
    /\ isSyncing
    /\ \E i \in DOMAIN passes : passes[i].pc = "finally" /\ ~passes[i].clean

\* C38: every recording whose saveRecording call has completed, and that no
\* completed deleteRecording call has removed, is in the stored list.
C38_NoLostUpdate ==
    \A id \in hist.saved : id \in StoredIds

====
